---- MODULE Spec2Model ----
(***************************************************************************)
(* Model of app.py: the Flask webhook handler (whatsapp_webhook), its      *)
(* target / wait_and_send / lambda threads, the lazily constructed Twilio  *)
(* client (twilio_client), send_async_twilio_message and the /_send_test   *)
(* endpoint.  Every Python thread is a process with its own position; one  *)
(* action is one atomic step of one thread.  generate_reply and            *)
(* client.messages.create are the environment: each call returns, raises   *)
(* or (generate_reply) stays running.                                      *)
(***************************************************************************)
EXTENDS Naturals, Sequences, FiniteSets

\* ------------------------------------------------------------------ bounds
\* Number of HTTP requests (POST /webhook or POST /_send_test) the process
\* serves, all of which may be in flight concurrently.
NumRequests == 2

Reqs == 1..NumRequests

\* ------------------------------------------------------------- input sets
None == "None"
\* Form field "Body" as a sequence of characters.
Bodies == { <<>>, <<" ", " ">>, <<"h", "i">>, <<" ", "h", "i", " ">> }
Senders == { "whatsapp:+911", "whatsapp:+912" }
\* What generate_reply may return (two values: the two invocations of one
\* request need not agree).
GenTexts == { "reply A", "reply B" }
\* JSON payloads of POST /_send_test; a missing key is None.
TestPayloads == [ to : {None} \cup Senders, body : {None, "hello test"} ]

\* ------------------------------------------------------- fixed texts
\* (lines 118 and 147 have an em dash where THINKING and RECEIVED have " - ")
GUIDANCE == "Sorry, I didn't get any text. Please send a message."
GEN_APOLOGY == "Sorry, something went wrong while generating the reply."
THINKING == "Got your message - I'm thinking and will reply shortly."
RECEIVED == "Received - I'll reply shortly."
SEND_APOLOGY == "Sorry, I couldn't prepare a reply."
QUEUED == "{status: queued}"
MISSING_TO == "{error: missing 'to'}"

NoResp == [ body |-> None, status |-> 0 ]
\* str(resp), 200 for a MessagingResponse holding one Message verb.
Twiml(text) == [ body |-> text, status |-> 200 ]
\* jsonify(...), code
Json(text, code) == [ body |-> text, status |-> code ]

\* ------------------------------------------------------- pure helpers
IsSpace(ch) == ch = " "

RECURSIVE LStrip(_)
LStrip(s) == IF s # <<>> /\ IsSpace(Head(s)) THEN LStrip(Tail(s)) ELSE s

RECURSIVE RStrip(_)
RStrip(s) ==
  IF s # <<>> /\ IsSpace(s[Len(s)]) THEN RStrip(SubSeq(s, 1, Len(s) - 1)) ELSE s

\* Variant of Strip: the Body is used as received, without .strip().
StripNothing(s) == s

\* str.strip()
Strip(s) == RStrip(LStrip(s))

\* ------------------------------------------------------------------ state
VARIABLES
  FAST_REPLY,      \* configuration flag, fixed for the process
  credsPresent,    \* TWILIO_ACCOUNT_SID and TWILIO_AUTH_TOKEN both set
  twilioClient,    \* _twilio_client: 0 is None, n > 0 the n-th Client built
  constructed,     \* number of Client(...) objects built so far
  hpc,             \* position of the handler thread of each request
  route,           \* branch the handler took for each request
  sender,          \* form field "From" (webhook) or JSON field "to" (test)
  incoming_msg,    \* stripped form field "Body" (webhook)
  testBody,        \* JSON field "body" with its default (test)
  reply_text,      \* the handler's nonlocal reply_text
  resp,            \* the response the handler built / returned
  tpc,             \* position of the target thread
  bgpc,            \* position of the background thread
  generated,       \* wait_and_send's local "generated"
  genCalls,        \* number of generate_reply invocations per request
  spc,             \* position inside send_async_twilio_message, per request
  notified         \* send_async_twilio_message calls made, per request

vars == << FAST_REPLY, credsPresent, twilioClient, constructed, hpc, route,
           sender, incoming_msg, testBody, reply_text, resp, tpc, bgpc,
           generated, genCalls, spc, notified >>

config == << FAST_REPLY, credsPresent >>
clientVars == << twilioClient, constructed >>
formVars == << sender, incoming_msg, testBody >>
genVars == << reply_text, tpc, generated, genCalls >>

Init ==
  /\ FAST_REPLY \in BOOLEAN
  /\ credsPresent \in BOOLEAN
  /\ twilioClient = 0
  /\ constructed = 0
  /\ hpc = [r \in Reqs |-> "idle"]
  /\ route = [r \in Reqs |-> "none"]
  /\ sender = [r \in Reqs |-> None]
  /\ incoming_msg = [r \in Reqs |-> <<>>]
  /\ testBody = [r \in Reqs |-> None]
  /\ reply_text = [r \in Reqs |-> None]
  /\ resp = [r \in Reqs |-> NoResp]
  /\ tpc = [r \in Reqs |-> "none"]
  /\ bgpc = [r \in Reqs |-> "none"]
  /\ generated = [r \in Reqs |-> None]
  /\ genCalls = [r \in Reqs |-> 0]
  /\ spc = [r \in Reqs |-> "idle"]
  /\ notified = [r \in Reqs |-> <<>>]

\* ------------------------------------------------- send_async_twilio_message
\* Variant of SendBody: the background thread sends the handler's reply_text
\* (the first invocation's slot) instead of its own "generated".
SendBodyFirstReply(c) ==
  IF route[c] = "test" THEN testBody[c]
  ELSE IF bgpc[c] = "apology" THEN SEND_APOLOGY ELSE reply_text[c]

\* Arguments of the send_async_twilio_message call made for request c:
\* line 173 (test), line 130 (apology), lines 126 and 148 (result).
SendTo(c) == sender[c]

SendBody(c) ==
  IF route[c] = "test" THEN testBody[c]
  ELSE IF bgpc[c] = "apology" THEN SEND_APOLOGY ELSE generated[c]

\* The last entry of a log with its outcome filled in.
Settle(log, how) ==
  [log EXCEPT ![Len(log)] = [log[Len(log)] EXCEPT !.outcome = how]]

\* send_async_twilio_message returns (normally: the except clause of line 66
\* has absorbed whatever was raised) and its caller goes on: send_test_message
\* answers "queued" (line 174), a background thread ends.
SendReturn(c) ==
  /\ spc' = [spc EXCEPT ![c] = "idle"]
  /\ IF route[c] = "test"
       THEN /\ hpc' = [hpc EXCEPT ![c] = "done"]
            /\ resp' = [resp EXCEPT ![c] = Json(QUEUED, 200)]
            /\ UNCHANGED bgpc
       ELSE /\ bgpc' = [bgpc EXCEPT ![c] = "done"]
            /\ UNCHANGED << hpc, resp >>

\* Line 59 and twilio_client() lines 46-49: the call is entered, the global
\* is read, and missing credentials raise RuntimeError (caught at line 66).
SendEnter(c) ==
  /\ spc[c] = "enter"
  /\ LET entry == [ to |-> SendTo(c), body |-> SendBody(c), outcome |-> "pending" ]
         log == Append(notified[c], entry)
     IN IF twilioClient # 0
          THEN /\ notified' = [notified EXCEPT ![c] = log]
               /\ spc' = [spc EXCEPT ![c] = "create"]
               /\ UNCHANGED << hpc, resp, bgpc >>
          ELSE IF credsPresent
            THEN /\ notified' = [notified EXCEPT ![c] = log]
                 /\ spc' = [spc EXCEPT ![c] = "construct"]
                 /\ UNCHANGED << hpc, resp, bgpc >>
            ELSE /\ notified' = [notified EXCEPT ![c] = Settle(log, "failed")]
                 /\ SendReturn(c)
  /\ UNCHANGED << config, clientVars, route, formVars, genVars >>

\* twilio_client() lines 50-51: build the Client, store it in the global.
SendConstruct(c) ==
  /\ spc[c] = "construct"
  /\ constructed' = constructed + 1
  /\ twilioClient' = constructed + 1
  /\ spc' = [spc EXCEPT ![c] = "create"]
  /\ UNCHANGED << config, hpc, route, formVars, resp, genVars, bgpc, notified >>

\* Variant of SendCreate: a failed create is retried by calling
\* send_async_twilio_message again.
SendCreateRetry(c, ok) ==
  /\ spc[c] = "create"
  /\ notified' = [notified EXCEPT
                    ![c] = Settle(notified[c], IF ok THEN "sent" ELSE "failed")]
  /\ IF ok THEN SendReturn(c)
     ELSE /\ spc' = [spc EXCEPT ![c] = "enter"]
          /\ UNCHANGED << hpc, resp, bgpc >>
  /\ UNCHANGED << config, clientVars, route, formVars, genVars >>

\* Lines 60-67: client.messages.create succeeds or raises; either way the
\* function returns normally.
SendCreate(c, ok) ==
  /\ spc[c] = "create"
  /\ notified' = [notified EXCEPT
                    ![c] = Settle(notified[c], IF ok THEN "sent" ELSE "failed")]
  /\ SendReturn(c)
  /\ UNCHANGED << config, clientVars, route, formVars, genVars >>

\* ------------------------------------------------------------ whatsapp_webhook
\* Lines 91-94: no text.
EmptyBranch(r) ==
  /\ resp' = [resp EXCEPT ![r] = Twiml(GUIDANCE)]
  /\ route' = [route EXCEPT ![r] = "empty"]
  /\ hpc' = [hpc EXCEPT ![r] = "done"]
  /\ UNCHANGED << tpc, bgpc, genCalls >>

\* Lines 146-149: acknowledgement built, background thread started; the
\* return of line 150 is still to come.
DeferredBranch(r) ==
  /\ resp' = [resp EXCEPT ![r] = Twiml(RECEIVED)]
  /\ route' = [route EXCEPT ![r] = "deferred"]
  /\ bgpc' = [bgpc EXCEPT ![r] = "gen"]
  /\ genCalls' = [genCalls EXCEPT ![r] = @ + 1]
  /\ hpc' = [hpc EXCEPT ![r] = "return"]
  /\ UNCHANGED tpc

\* Lines 102-111: the target thread is created and started.
StartTarget(r) ==
  /\ tpc' = [tpc EXCEPT ![r] = "running"]
  /\ genCalls' = [genCalls EXCEPT ![r] = @ + 1]
  /\ hpc' = [hpc EXCEPT ![r] = "join"]
  /\ UNCHANGED << resp, route, bgpc >>

\* Lines 86-111 / 144-149: the request arrives and is parsed.
Receive(r, body, from) ==
  /\ hpc[r] = "idle"
  /\ sender' = [sender EXCEPT ![r] = from]
  /\ incoming_msg' = [incoming_msg EXCEPT ![r] = Strip(body)]
  /\ IF Strip(body) = <<>> THEN EmptyBranch(r)
     ELSE IF FAST_REPLY THEN StartTarget(r) ELSE DeferredBranch(r)
  /\ UNCHANGED << config, clientVars, testBody, reply_text, generated, spc,
                  notified >>

\* Variant of JoinMayReturn: thread.join() without a timeout.
JoinWaitsForThread(r) == tpc[r] # "running"

\* Line 112: thread.join(timeout=GENERATE_TIMEOUT) can return: the thread has
\* ended, or the timeout has elapsed (which any amount of waiting brings).
JoinMayReturn(r) == TRUE

\* Variant of TimeoutBranch: wait_and_send waits for the result of the call
\* already running instead of calling generate_reply again.
TimeoutBranchReusesFirst(r) ==
  /\ resp' = [resp EXCEPT ![r] = Twiml(THINKING)]
  /\ route' = [route EXCEPT ![r] = "timeout"]
  /\ bgpc' = [bgpc EXCEPT ![r] = "gen"]
  /\ hpc' = [hpc EXCEPT ![r] = "return"]
  /\ UNCHANGED genCalls

\* Lines 115-134: the thread is still alive; acknowledgement built,
\* wait_and_send started; the return of line 135 is still to come.
TimeoutBranch(r) ==
  /\ resp' = [resp EXCEPT ![r] = Twiml(THINKING)]
  /\ route' = [route EXCEPT ![r] = "timeout"]
  /\ bgpc' = [bgpc EXCEPT ![r] = "gen"]
  /\ genCalls' = [genCalls EXCEPT ![r] = @ + 1]
  /\ hpc' = [hpc EXCEPT ![r] = "return"]

\* Variant of SyncBranch: the reply is returned and wait_and_send is started
\* all the same.
SyncBranchStartsBackground(r) ==
  /\ resp' = [resp EXCEPT ![r] = Twiml(reply_text[r])]
  /\ route' = [route EXCEPT ![r] = "sync"]
  /\ hpc' = [hpc EXCEPT ![r] = "done"]
  /\ bgpc' = [bgpc EXCEPT ![r] = "gen"]
  /\ genCalls' = [genCalls EXCEPT ![r] = @ + 1]

\* Lines 137-142: the reply is ready, and returned.
SyncBranch(r) ==
  /\ resp' = [resp EXCEPT ![r] = Twiml(reply_text[r])]
  /\ route' = [route EXCEPT ![r] = "sync"]
  /\ hpc' = [hpc EXCEPT ![r] = "done"]
  /\ UNCHANGED << bgpc, genCalls >>

\* Lines 112-114: the join returns and thread.is_alive() is read.  (A target
\* that ends between the two is a target that ended before the join
\* returned.)
Check(r) ==
  /\ hpc[r] = "join"
  /\ JoinMayReturn(r)
  /\ IF tpc[r] = "running" THEN TimeoutBranch(r) ELSE SyncBranch(r)
  /\ UNCHANGED << config, clientVars, formVars, reply_text, tpc, generated,
                  spc, notified >>

\* Lines 135 and 150: return str(resp), 200 after a thread was started.
Return(r) ==
  /\ hpc[r] = "return"
  /\ hpc' = [hpc EXCEPT ![r] = "done"]
  /\ UNCHANGED << config, clientVars, route, formVars, resp, genVars, bgpc,
                  spc, notified >>

\* ------------------------------------------------------------------- target
\* Variant of TargetReturn: a target thread that finds the request already
\* acknowledged delivers its late result itself.
TargetReturnDelivers(r, out) ==
  /\ tpc[r] = "running"
  /\ reply_text' = [reply_text EXCEPT ![r] = out]
  /\ tpc' = [tpc EXCEPT ![r] = "returned"]
  /\ notified' = [notified EXCEPT
                    ![r] = IF route[r] = "timeout"
                             THEN Append(@, [ to |-> sender[r], body |-> out,
                                              outcome |-> "sent" ])
                             ELSE @]
  /\ UNCHANGED << config, clientVars, hpc, route, formVars, resp, bgpc,
                  generated, genCalls, spc >>

\* Line 105: generate_reply returns.
TargetReturn(r, out) ==
  /\ tpc[r] = "running"
  /\ reply_text' = [reply_text EXCEPT ![r] = out]
  /\ tpc' = [tpc EXCEPT ![r] = "returned"]
  /\ UNCHANGED << config, clientVars, hpc, route, formVars, resp, bgpc,
                  generated, genCalls, spc, notified >>

\* Variant of TargetRaise: target() has no except clause, the thread ends
\* and reply_text keeps the None of line 97.
TargetRaiseUncaught(r) ==
  /\ tpc[r] = "running"
  /\ tpc' = [tpc EXCEPT ![r] = "raised"]
  /\ UNCHANGED << config, clientVars, hpc, route, formVars, resp, reply_text,
                  bgpc, generated, genCalls, spc, notified >>

\* Lines 106-108: generate_reply raises.
TargetRaise(r) ==
  /\ tpc[r] = "running"
  /\ reply_text' = [reply_text EXCEPT ![r] = GEN_APOLOGY]
  /\ tpc' = [tpc EXCEPT ![r] = "raised"]
  /\ UNCHANGED << config, clientVars, hpc, route, formVars, resp, bgpc,
                  generated, genCalls, spc, notified >>

\* ------------------------------------------- wait_and_send and the lambda
\* Lines 125-126 and 148: generate_reply returns, its result is to be sent.
BgGenerateReturn(r, out) ==
  /\ bgpc[r] = "gen"
  /\ generated' = [generated EXCEPT ![r] = out]
  /\ bgpc' = [bgpc EXCEPT ![r] = "result"]
  /\ spc' = [spc EXCEPT ![r] = "enter"]
  /\ UNCHANGED << config, clientVars, hpc, route, formVars, resp, reply_text,
                  tpc, genCalls, notified >>

\* generate_reply raises: wait_and_send's except clause (lines 127-130) sends
\* the apology; the lambda of line 148 has no handler and its thread ends.
BgGenerateRaise(r) ==
  /\ bgpc[r] = "gen"
  /\ IF route[r] = "timeout"
       THEN /\ bgpc' = [bgpc EXCEPT ![r] = "apology"]
            /\ spc' = [spc EXCEPT ![r] = "enter"]
       ELSE /\ bgpc' = [bgpc EXCEPT ![r] = "raised"]
            /\ UNCHANGED spc
  /\ UNCHANGED << config, clientVars, hpc, route, formVars, resp, reply_text,
                  tpc, generated, genCalls, notified >>

\* ------------------------------------------------------------ send_test_message
\* Lines 167-173.
TestReceive(r, data) ==
  /\ hpc[r] = "idle"
  /\ route' = [route EXCEPT ![r] = "test"]
  /\ sender' = [sender EXCEPT ![r] = data.to]
  /\ testBody' = [testBody EXCEPT
                    ![r] = IF data.body = None THEN "test" ELSE data.body]
  /\ IF data.to = None
       THEN /\ resp' = [resp EXCEPT ![r] = Json(MISSING_TO, 400)]
            /\ hpc' = [hpc EXCEPT ![r] = "done"]
            /\ UNCHANGED spc
       ELSE /\ hpc' = [hpc EXCEPT ![r] = "sending"]
            /\ spc' = [spc EXCEPT ![r] = "enter"]
            /\ UNCHANGED resp
  /\ UNCHANGED << config, clientVars, incoming_msg, genVars, bgpc, notified >>

\* ------------------------------------------------------------ specification
HandlerStep(r) == Check(r) \/ Return(r)

SendStep(c) ==
  SendEnter(c) \/ SendConstruct(c) \/ (\E ok \in BOOLEAN : SendCreate(c, ok))

Next ==
  \/ \E r \in Reqs, body \in Bodies, from \in Senders : Receive(r, body, from)
  \/ \E r \in Reqs : Check(r)
  \/ \E r \in Reqs : Return(r)
  \/ \E r \in Reqs, out \in GenTexts : TargetReturn(r, out)
  \/ \E r \in Reqs : TargetRaise(r)
  \/ \E r \in Reqs, out \in GenTexts : BgGenerateReturn(r, out)
  \/ \E r \in Reqs : BgGenerateRaise(r)
  \/ \E c \in Reqs : SendEnter(c)
  \/ \E c \in Reqs : SendConstruct(c)
  \/ \E c \in Reqs, ok \in BOOLEAN : SendCreate(c, ok)
  \/ \E r \in Reqs, data \in TestPayloads : TestReceive(r, data)

Spec == Init /\ [][Next]_vars

\* The handler threads are scheduled; generate_reply and the Twilio calls
\* owe nothing.
HandlerFairSpec ==
  /\ Spec
  /\ \A r \in Reqs : WF_vars(HandlerStep(r))

\* Every thread that can run is scheduled, and a Twilio call that was made
\* comes back; generate_reply itself still owes nothing.
FairSpec ==
  /\ HandlerFairSpec
  /\ \A c \in Reqs : WF_vars(SendStep(c))

TypeOK ==
  /\ FAST_REPLY \in BOOLEAN /\ credsPresent \in BOOLEAN
  /\ twilioClient \in 0..constructed
  /\ \A r \in Reqs :
       /\ hpc[r] \in {"idle", "join", "return", "sending", "done"}
       /\ route[r] \in {"none", "empty", "sync", "timeout", "deferred", "test"}
       /\ tpc[r] \in {"none", "running", "returned", "raised"}
       /\ bgpc[r] \in {"none", "gen", "result", "apology", "raised", "done"}
       /\ genCalls[r] \in 0..2
       /\ spc[r] \in {"idle", "enter", "construct", "create"}
       /\ Len(notified[r]) <= 2


\* ------------------------------------------------------ derived observations
\* The background thread of request r has ended.
BgEnded(r) == bgpc[r] \in {"done", "raised"}

\* Positions in r's log of the deliveries of a generated result / of the
\* apology of line 130.
ResultAttempts(r) ==
  { i \in 1..Len(notified[r]) : notified[r][i].body # SEND_APOLOGY }

ApologyAttempts(r) ==
  { i \in 1..Len(notified[r]) : notified[r][i].body = SEND_APOLOGY }

AllFailed(r) ==
  \A i \in 1..Len(notified[r]) : notified[r][i].outcome = "failed"

\* A webhook request whose answer is left to a background thread.
Async(r) == route[r] \in {"timeout", "deferred"}

\* ------------------------------------------------------------------- claims

\* C1: for one inbound webhook request, no Notifier call for that request is
\* made while the handler has not yet returned its acknowledgement.
AckBeforeDelivery ==
  \A r \in Reqs : (Async(r) /\ notified[r] # <<>>) => hpc[r] = "done"

\* C2: when every Notifier call fails, a background task whose generation
\* returned has made exactly two Notifier attempts by the time it ends: the
\* generated result first, then the fixed apology.
TwoAttemptsWhenNotifierDown ==
  \A r \in Reqs :
    (Async(r) /\ BgEnded(r) /\ generated[r] # None /\ AllFailed(r))
      => /\ Len(notified[r]) = 2
         /\ notified[r][1].body = generated[r]
         /\ notified[r][2].body = SEND_APOLOGY

\* C3 as stated: once the background unit of an asynchronously answered
\* message has ended, exactly one result delivery has been attempted,
\* whatever the generator did, and at most one error notice.
OneResultDeliveryWhateverGenerator ==
  \A r \in Reqs :
    (Async(r) /\ BgEnded(r))
      => /\ Cardinality(ResultAttempts(r)) = 1
         /\ Cardinality(ApologyAttempts(r)) <= 1

\* C3 as amended: for an asynchronously answered message there is never more
\* than one result delivery attempt nor more than one error notice attempt;
\* a background unit whose generation returned ends with exactly one result
\* delivery attempt (to the sender, carrying the generated text); one whose
\* generation has not returned has attempted no result delivery.
OneResultDeliveryIfGenerated ==
  \A r \in Reqs :
    Async(r)
      => /\ Cardinality(ResultAttempts(r)) <= 1
         /\ Cardinality(ApologyAttempts(r)) <= 1
         /\ (BgEnded(r) /\ generated[r] # None)
              => /\ ResultAttempts(r) = {1}
                 /\ notified[r][1].to = sender[r]
                 /\ notified[r][1].body = generated[r]
         /\ generated[r] = None => ResultAttempts(r) = {}

\* C3 witness: the generation returned, the one result delivery failed, the
\* unit has ended, and no error notice followed.
WitnessOneResultDelivery ==
  \E r \in Reqs :
    /\ route[r] = "timeout" /\ bgpc[r] = "done" /\ generated[r] # None
    /\ Len(notified[r]) = 1 /\ notified[r][1].outcome = "failed"


\* The one Notifier call C4 expects for request r.
ResultDelivered(r) ==
  /\ Len(notified[r]) = 1
  /\ notified[r][1].to = sender[r]
  /\ notified[r][1].body = generated[r]

\* C4: in fast-path mode, when the generator outlasts the budget the handler
\* returns the fixed "thinking" acknowledgement, and once the second
\* generator invocation has returned the Notifier is eventually invoked, and
\* invoked only once, with the sender as destination and the text that
\* second invocation generated as body.
TimeoutAckThenDelivery ==
  /\ [](\A r \in Reqs :
          route[r] = "timeout"
            => /\ FAST_REPLY
               /\ resp[r] = Twiml(THINKING)
               /\ Len(notified[r]) <= 1
               /\ notified[r] # <<>> => ResultDelivered(r) \/ generated[r] = None)
  /\ [][\A r \in Reqs :
          (hpc[r] = "join" /\ hpc'[r] # "join" /\ tpc[r] = "running")
            => route'[r] = "timeout"]_vars
  /\ \A r \in Reqs : (route[r] = "timeout") ~> (hpc[r] = "done")
  /\ \A r \in Reqs :
       (route[r] = "timeout" /\ generated[r] # None) ~> ResultDelivered(r)

\* C4 witness: the acknowledgement was returned, the abandoned first
\* invocation produced one text and the second another, and the second one
\* was delivered.
WitnessTimeoutDelivery ==
  \E r \in Reqs :
    /\ route[r] = "timeout" /\ hpc[r] = "done" /\ bgpc[r] = "done"
    /\ reply_text[r] \in GenTexts /\ reply_text[r] # generated[r]
    /\ ResultDelivered(r) /\ notified[r][1].outcome = "sent"

\* C5: in fast-path mode, when the generator has returned by the time the
\* join is over, the handler returns status 200 with exactly the generator's
\* output, starts no background thread and never calls the Notifier.
SyncReplyEmbedsOutput ==
  /\ [][\A r \in Reqs :
          (hpc[r] = "join" /\ hpc'[r] # "join" /\ tpc[r] = "returned")
            => /\ route'[r] = "sync"
               /\ hpc'[r] = "done"
               /\ resp'[r] = [ body |-> reply_text[r], status |-> 200 ]]_vars
  /\ [](\A r \in Reqs :
          route[r] = "sync"
            => /\ FAST_REPLY
               /\ bgpc[r] = "none"
               /\ spc[r] = "idle"
               /\ notified[r] = <<>>
               /\ tpc[r] = "returned" => resp[r].body \in GenTexts)

\* C5 witness: a request answered synchronously with the generator's output.
WitnessSyncReply ==
  \E r \in Reqs :
    /\ route[r] = "sync" /\ hpc[r] = "done" /\ tpc[r] = "returned"
    /\ resp[r] = Twiml(reply_text[r]) /\ reply_text[r] \in GenTexts

\* C6: the shared client handle is constructed at most once per process.
ClientConstructedOnce == constructed <= 1

\* C7: with the credentials missing, a test-trigger request that carries a
\* "to" field is answered with status 500, never with "queued" and 200.
MissingCredsGive500 ==
  \A r \in Reqs :
    (route[r] = "test" /\ hpc[r] = "done" /\ sender[r] # None /\ ~credsPresent)
      => /\ resp[r].status = 500
         /\ resp[r].body # QUEUED

\* C8: with fast-path mode disabled, a background unit whose generator
\* invocation raised makes exactly one Notifier call, carrying the fixed
\* apology.
DeferredRaiseSendsApology ==
  \A r \in Reqs :
    (route[r] = "deferred" /\ bgpc[r] = "raised")
      => /\ Len(notified[r]) = 1
         /\ notified[r][1].body = SEND_APOLOGY

\* C9: in fast-path mode, when the generator has raised by the time the join
\* is over, the handler returns status 200 with the fixed apology text.
SyncRaiseGivesApology ==
  /\ [][\A r \in Reqs :
          (hpc[r] = "join" /\ hpc'[r] # "join" /\ tpc[r] = "raised")
            => /\ route'[r] = "sync"
               /\ hpc'[r] = "done"
               /\ resp'[r] = [ body |-> GEN_APOLOGY, status |-> 200 ]]_vars
  /\ [](\A r \in Reqs :
          (route[r] = "sync" /\ tpc[r] = "raised")
            => resp[r] = [ body |-> GEN_APOLOGY, status |-> 200 ])

\* C9 witness: a request whose generator raised, answered synchronously.
WitnessSyncApology ==
  \E r \in Reqs :
    /\ route[r] = "sync" /\ hpc[r] = "done" /\ tpc[r] = "raised"
    /\ resp[r].body = GEN_APOLOGY

\* An acknowledgement of the webhook: status 200 and one of the texts the
\* handler can put in a Message.
WellFormedAck(a) ==
  /\ a.status = 200
  /\ a.body \in {GUIDANCE, THINKING, RECEIVED, GEN_APOLOGY} \cup GenTexts

Webhook(r) == route[r] \in {"empty", "sync", "timeout", "deferred"}

\* C10: every webhook request that has arrived is eventually answered with
\* a well-formed acknowledgement, though the generator may never return and
\* the Notifier may never be reached: the handler waits for neither.
HandlerAlwaysAnswers ==
  /\ \A r \in Reqs :
       (hpc[r] \in {"join", "return"}) ~> (hpc[r] = "done" /\ WellFormedAck(resp[r]))
  /\ [](\A r \in Reqs :
          (Webhook(r) /\ hpc[r] = "done") => WellFormedAck(resp[r]))

\* C10 witness: the handler has answered while both generator invocations
\* of the request are still running.
WitnessAnsweredWhileGenerating ==
  \E r \in Reqs :
    /\ hpc[r] = "done" /\ route[r] = "timeout"
    /\ tpc[r] = "running" /\ bgpc[r] = "gen"
    /\ WellFormedAck(resp[r])


\* The text is empty or made of white space only.
IsBlank(s) == \A i \in 1..Len(s) : IsSpace(s[i])

\* Request r is a webhook request that has been received.
Arrived(r) == hpc[r] # "idle" /\ route[r] # "test"

\* C11: a webhook message whose text is empty or white space only is
\* answered with the fixed guidance text and status 200, in either mode,
\* with no generator invocation, no thread started and no Notifier call.
BlankTextGetsGuidance ==
  \A r \in Reqs :
    (Arrived(r) /\ IsBlank(incoming_msg[r]))
      => /\ route[r] = "empty"
         /\ hpc[r] = "done"
         /\ resp[r] = [ body |-> GUIDANCE, status |-> 200 ]
         /\ genCalls[r] = 0
         /\ tpc[r] = "none" /\ bgpc[r] = "none"
         /\ spc[r] = "idle" /\ notified[r] = <<>>

\* C11 witness: a request without text, answered with the guidance.
WitnessBlankText ==
  \E r \in Reqs :
    /\ route[r] = "empty" /\ hpc[r] = "done" /\ sender[r] \in Senders
    /\ resp[r].body = GUIDANCE /\ genCalls[r] = 0


\* C12: on the fast-path timeout the first generation unit is left running
\* (it can still complete, also after the acknowledgement was returned) and
\* the fallback unit invokes the generator afresh: two invocations for the
\* request on the timeout path, one on every other path with text.
TimeoutInvokesGeneratorTwice ==
  \A r \in Reqs :
    /\ route[r] = "timeout"
         => /\ genCalls[r] = 2
            /\ tpc[r] # "none" /\ bgpc[r] # "none"
            /\ tpc[r] = "running"
                 => \A out \in GenTexts : ENABLED TargetReturn(r, out)
    /\ (route[r] \in {"sync", "deferred"} \/ hpc[r] = "join")
         => genCalls[r] = 1

\* C12 witness: the acknowledgement of a timed-out request was returned, the
\* abandoned first invocation has run to completion all the same, and the
\* generator was invoked twice.
WitnessAbandonedCompletes ==
  \E r \in Reqs :
    /\ route[r] = "timeout" /\ hpc[r] = "done"
    /\ tpc[r] = "returned" /\ reply_text[r] \in GenTexts
    /\ genCalls[r] = 2


\* C13: the abandoned first generation unit never calls the Notifier: when
\* it ends, only reply_text changes, which nothing reads after the timeout.
\* Every Notifier call of a webhook request is made by its background unit,
\* and a timed-out request gets at most one generated answer delivered, the
\* one its fallback unit generated.
AbandonedUnitNeverNotifies ==
  /\ [][\A r \in Reqs :
          /\ (tpc[r] = "running" /\ tpc'[r] # "running")
               => /\ notified'[r] = notified[r]
                  /\ spc'[r] = spc[r]
                  /\ bgpc'[r] = bgpc[r]
                  /\ generated'[r] = generated[r]
                  /\ route[r] = "timeout" => resp'[r] = resp[r]
          /\ (Arrived(r) /\ notified'[r] # notified[r])
               => bgpc[r] \in {"result", "apology"}]_vars
  /\ [](\A r \in Reqs :
          route[r] = "timeout"
            => /\ Cardinality(ResultAttempts(r)) <= 1
               /\ \A i \in ResultAttempts(r) :
                    notified[r][i].body = generated[r]
               /\ resp[r].body = THINKING)

\* C13 witness: the abandoned unit of a timed-out, acknowledged request has
\* completed while the fallback unit is still generating, and no Notifier
\* call has been made.
WitnessLateResultDiscarded ==
  \E r \in Reqs :
    /\ route[r] = "timeout" /\ hpc[r] = "done"
    /\ tpc[r] = "returned" /\ reply_text[r] \in GenTexts
    /\ bgpc[r] = "gen" /\ notified[r] = <<>>

====
